---- MODULE Spec2Model ----
(***************************************************************************)
(* Model of app.py: a Flask application that geocodes a location, fetches  *)
(* current weather and forecast, and keeps one row per lookup in the       *)
(* weather_queries table.  Each worker thread serves one request at a      *)
(* time with its own ORM session.  A handler that reads the table, calls   *)
(* out to the network and then writes is two actions: the load with the    *)
(* form checks, then the network calls with the commit.  The network calls *)
(* touch no shared state, so taking them together with the commit that     *)
(* follows loses no interleaving of the table accesses.                    *)
(*                                                                         *)
(* Python values: None is the empty tuple; a str is a tuple of characters  *)
(* or of string pieces; a date is <<year, month, day>>; an optional value  *)
(* held in a local is <<>> or <<v>>.                                       *)
(***************************************************************************)
EXTENDS Integers, Sequences, FiniteSets, TLC

\* ------------------------------------------------------------------ bounds
\* Requests served during one run of the model.
MaxRequests == 2
\* Rows the table may hold (creates in flight included).
MaxRecords == 2

\* The worker threads of the server, in the order requests are handed out.
WorkerOrder == <<"t1", "t2">>
Workers == { WorkerOrder[i] : i \in DOMAIN WorkerOrder }

None == <<>>

\* ------------------------------------------------------------------ inputs
\* Values of the "start_date" / "end_date" form fields, split at "-".
D1 == <<2024, 1, 5>>
D2 == <<2024, 2, 1>>
BadDate == <<2024, 2, 30>>

Form(location, start_raw, end_raw) ==
    [location |-> location, start_date |-> start_raw, end_date |-> end_raw]

\* The form submissions of POST / and POST /history/<id>/edit.
Submissions ==
    { Form(<<>>, D1, D2), Form(<<" ">>, <<>>, <<>>),
      Form(<<" ", "P", " ">>, BadDate, <<>>), Form(<<"P">>, D1, BadDate),
      Form(<<"P">>, D2, D1),
      Form(<<"X">>, <<>>, D1),
      Form(<<" ", "P", " ">>, <<>>, <<>>), Form(<<"L">>, D1, D2),
      Form(<<"P">>, D1, D1), Form(<<"P">>, D2, D2) }

\* Record ids a URL may carry.
Ids == 1 .. (MaxRecords + 1)

\* What the geocoding endpoint knows: the best match of a query ("limit": 1),
\* no match for any other query.
Paris == [name |-> "Paris", country |-> "FR", lat |-> 48, lon |-> 2]
London == [name |-> "London", country |-> "GB", lat |-> 51, lon |-> 0]
GeoIndex(query) ==
    IF query = <<"P">> THEN <<Paris>>
    ELSE IF query = <<"L">> THEN <<London>>
    ELSE <<>>

\* Outcomes of the geocoding call: a failed call, or the JSON list.
GeoResponses(query) ==
    { [ok |-> FALSE, data |-> <<>>], [ok |-> TRUE, data |-> GeoIndex(query)] }

\* An answer of a weather endpoint: a failed call, or the JSON body.
Failed == [ok |-> FALSE, json |-> "none"]
Answer(json) == [ok |-> TRUE, json |-> json]
CurrentResponses == { Failed, Answer("c1"), Answer("c2") }
ForecastResponses == { Failed, Answer("f1"), Answer("f2") }

\* Outcomes of one weather fetch: the answers to its two calls (no forecast
\* is asked for after a failed current-conditions call).  Unasked stands
\* for the answers of a fetch that is never made.
WeatherResponses ==
    { [c |-> c, f |-> f] : c \in CurrentResponses \ {Failed}, f \in ForecastResponses \ {Failed} }
    \cup { [c |-> Failed, f |-> Failed], [c |-> Answer("c1"), f |-> Failed] }
Unasked == [c |-> Failed, f |-> Failed]

\* Bodies of POST /by-coords: a JSON object whose "lat"/"lon" are absent
\* (None) or numbers, or a JSON value that is no object.
CoordBodies ==
    { [object |-> TRUE, lat |-> <<48>>, lon |-> <<>>],
      [object |-> TRUE, lat |-> <<>>, lon |-> <<0>>],
      [object |-> TRUE, lat |-> <<48>>, lon |-> <<0>>],
      [object |-> FALSE, lat |-> <<>>, lon |-> <<>>] }

Formats == { "json", "csv", "xml" }

\* ----------------------------------------------------------------- helpers
IsSpace(c) == c = " "

RECURSIVE lstrip(_)
lstrip(s) == IF s # <<>> /\ IsSpace(Head(s)) THEN lstrip(Tail(s)) ELSE s

RECURSIVE rstrip(_)
rstrip(s) ==
    IF s # <<>> /\ IsSpace(s[Len(s)]) THEN rstrip(SubSeq(s, 1, Len(s) - 1)) ELSE s

\* str.strip()
strip(s) == rstrip(lstrip(s))

IsLeap(y) == (y % 4 = 0 /\ y % 100 # 0) \/ y % 400 = 0

DaysInMonth(y, m) ==
    IF m = 2 THEN (IF IsLeap(y) THEN 29 ELSE 28)
    ELSE IF m \in {4, 6, 9, 11} THEN 30 ELSE 31

\* datetime.strptime(d, "%Y-%m-%d") raises ValueError
strptime_raises(d) ==
    ~ ( /\ Len(d) = 3
        /\ d[1] \in 1 .. 9999
        /\ d[2] \in 1 .. 12
        /\ d[3] \in 1 .. DaysInMonth(d[1], d[2]) )

\* parse_date raises ValueError
parse_date_raises(d) == d # <<>> /\ strptime_raises(d)

\* parse_date: None for a missing or empty field, else the date
parse_date(d) == IF d = <<>> THEN None ELSE <<d[1], d[2], d[3]>>

\* date.__gt__
DateGT(a, b) ==
    \/ a[1] > b[1]
    \/ a[1] = b[1] /\ a[2] > b[2]
    \/ a[1] = b[1] /\ a[2] = b[2] /\ a[3] > b[3]

\* "start_date and end_date and start_date > end_date"
StartAfterEnd(s, e) == s # None /\ e # None /\ DateGT(s, e)

WEATHER_API_KEY == <<"5", "4", "c", "3">>

\* geocode_location raises (missing key, timeout, raise_for_status)
geocode_raises(r) == WEATHER_API_KEY = <<>> \/ ~ r.ok

\* geocode_location: None for an empty list, else the dict of the first entry
geocode_location(r) ==
    IF r.data = <<>> THEN None
    ELSE << [ name |-> <<r.data[1].name, ", ", r.data[1].country>>,
              lat |-> r.data[1].lat,
              lon |-> r.data[1].lon ] >>

\* get_weather_and_forecast raises (missing key, either raise_for_status)
weather_raises(c, f) == WEATHER_API_KEY = <<>> \/ ~ c.ok \/ ~ f.ok

\* get_weather_and_forecast: the pair of JSON bodies
get_weather_and_forecast(c, f) == [current |-> c.json, forecast |-> f.json]

\* One entry of the trace of a request: a network call with its answer, or
\* the table write.
Call(op, answer) == [op |-> op, answer |-> answer]
Write == Call("write", [ok |-> TRUE])

\* The requests get_weather_and_forecast sends, with their answers: the
\* forecast is requested only after the current-conditions call came back
\* successful.
weather_calls(c, f) ==
    IF WEATHER_API_KEY = <<>> THEN <<>>
    ELSE IF ~ c.ok THEN << Call("current", c) >>
    ELSE << Call("current", c), Call("forecast", f) >>

\* The request geocode_location sends, with its answer.
geocode_calls(r) ==
    IF WEATHER_API_KEY = <<>> THEN <<>> ELSE << Call("geocode", r) >>

json_dumps(v) == <<"json", v>>
json_loads(t) == t[2]

Max(S) == CHOOSE x \in S : \A y \in S : y <= x

\* The id SQLite gives an INTEGER PRIMARY KEY row: one past the largest.
NewId(tbl) == IF DOMAIN tbl = {} THEN 1 ELSE Max(DOMAIN tbl) + 1

\* ------------------------------------------------------------------- state
VARIABLES
    store,      \* weather_queries: id -> row
    started,    \* requests received so far
    pc,         \* per worker: where its handler stands
    req,        \* per worker: the form submitted with the request in progress
    q,          \* per worker: the row its session loaded (get_or_404)
    served,     \* the request answered last
    resp,       \* the response to it
    calls       \* the network calls and the table write made for it

vars == <<store, started, pc, req, q, served, resp, calls>>

\* ----------------------------------------------------------------- requests
\* A request: the view function routed to, the method, the id in the URL
\* (0 when the route has none) and what came with it (form, JSON body or
\* format token).
Request(view, method, query_id, sent) ==
    [view |-> view, method |-> method, query_id |-> query_id, sent |-> sent]



\* ---------------------------------------------------------------- responses
Response(view, status, kind, target, flash, body) ==
    [view |-> view, status |-> status, kind |-> kind, target |-> target,
     flash |-> flash, body |-> body]

\* render_template(template, ...)
Render(view, template, body) == Response(view, 200, "render", template, None, body)
\* flash(message, category); redirect(url_for(target))
Redirect(view, target, category, message) ==
    Response(view, 302, "redirect", target, <<category, message>>, None)
\* jsonify(body), status
Jsonify(view, status, body) == Response(view, status, "json", None, None, body)
\* get_or_404 found no row
Abort404(view) == Response(view, 404, "notfound", None, None, None)
\* An exception that left the view function.
Unhandled(view, exc) == Response(view, 500, "exception", None, None, exc)

\* The table when the server starts: empty on a first run, else the rows
\* that earlier runs left in weather.db.
EarlierRow ==
    [ id |-> 1, created_at |-> 0,
      user_input |-> <<"P">>, normalized_name |-> <<"Paris", ", ", "FR">>,
      lat |-> 48, lon |-> 2, start_date |-> D1, end_date |-> D2,
      current_weather_json |-> json_dumps("c1"), forecast_json |-> json_dumps("f1") ]

InitialTables == { <<>>, <<EarlierRow>> }

Init ==
    /\ store \in InitialTables
    /\ started = 0
    /\ pc = [p \in Workers |-> "idle"]
    /\ req = [p \in Workers |-> None]
    /\ q = [p \in Workers |-> None]
    /\ served = Request("none", "none", 0, None)
    /\ resp = Response("none", 0, "none", None, None, None)
    /\ calls = <<>>

\* datetime.utcnow(): the clock advances with every request received.
utcnow == started + 1

\* A request is handed to the first idle worker.
Free(p) ==
    /\ started < MaxRequests
    /\ \E i \in DOMAIN WorkerOrder :
         /\ WorkerOrder[i] = p
         /\ pc[p] = "idle"
         /\ \A j \in 1 .. (i - 1) : pc[WorkerOrder[j]] # "idle"

\* Rows present plus rows that requests in progress will insert.
Room ==
    Cardinality(DOMAIN store) + Cardinality({p \in Workers : pc[p] = "index_fetch"})
        < MaxRecords

\* The view function returns (or raises): the response goes out and the
\* locals are dropped.
Finish(p, request, r, trace) ==
    /\ pc' = [pc EXCEPT ![p] = "idle"]
    /\ served' = request
    /\ req' = [req EXCEPT ![p] = None]
    /\ q' = [q EXCEPT ![p] = None]
    /\ resp' = r
    /\ calls' = trace

\* The view function goes on to its network calls and its commit.
Goto(p, label, request, loaded) ==
    /\ pc' = [pc EXCEPT ![p] = label]
    /\ req' = [req EXCEPT ![p] = <<request>>]
    /\ q' = [q EXCEPT ![p] = loaded]
    /\ UNCHANGED <<served, resp, calls>>

\* ----------------------------------------------------------------- index()
IndexGet(p) ==
    /\ Free(p)
    /\ started' = started + 1
    /\ Finish(p, Request("index", "GET", 0, None),
              Render("index", "index.html",
                     [weather |-> None, forecast |-> None, query |-> None]), <<>>)
    /\ UNCHANGED store

\* index() without its check of the date order.
IndexFormError_NoOrderCheck(f) ==
    IF strip(f.location) = <<>> THEN "Please enter a location."
    ELSE IF parse_date_raises(f.start_date) \/ parse_date_raises(f.end_date)
         THEN "Invalid date format. Use YYYY-MM-DD."
    ELSE ""

\* The form checks of index(): "" when they pass, else the flash message.
IndexFormError(f) ==
    IF strip(f.location) = <<>> THEN "Please enter a location."
    ELSE IF parse_date_raises(f.start_date) \/ parse_date_raises(f.end_date)
         THEN "Invalid date format. Use YYYY-MM-DD."
    ELSE IF StartAfterEnd(parse_date(f.start_date), parse_date(f.end_date))
         THEN "Start date must be before end date."
    ELSE ""

IndexPost(p) ==
    /\ Free(p)
    /\ Room
    /\ started' = started + 1
    /\ \E f \in Submissions :
         IF IndexFormError(f) # ""
         THEN Finish(p, Request("index", "POST", 0, <<f>>),
                     Redirect("index", "index", "error", IndexFormError(f)), <<>>)
         ELSE Goto(p, "index_fetch", Request("index", "POST", 0, <<f>>), None)
    /\ UNCHANGED store

\* WeatherQuery(...) with the two coordinates exchanged.
NewQuery_SwappedCoords(f, l, w) ==
    [ user_input |-> strip(f.location),
      normalized_name |-> l.name,
      lat |-> l.lon,
      lon |-> l.lat,
      start_date |-> parse_date(f.start_date),
      end_date |-> parse_date(f.end_date),
      current_weather_json |-> json_dumps(w.current),
      forecast_json |-> json_dumps(w.forecast) ]

\* WeatherQuery(...) / the attributes edit() assigns, from the checked form,
\* the geocoding result and the weather pair
NewQuery(f, l, w) ==
    [ user_input |-> strip(f.location),
      normalized_name |-> l.name,
      lat |-> l.lat,
      lon |-> l.lon,
      start_date |-> parse_date(f.start_date),
      end_date |-> parse_date(f.end_date),
      current_weather_json |-> json_dumps(w.current),
      forecast_json |-> json_dumps(w.forecast) ]

\* db.session.add(obj); db.session.commit(): INSERT with a fresh id and
\* created_at defaulting to datetime.utcnow
Insert(tbl, obj, t) ==
    LET new == NewId(tbl) IN
    [ i \in DOMAIN tbl \cup {new} |->
        IF i = new THEN [ id |-> new, created_at |-> t ] @@ obj ELSE tbl[i] ]

\* Whether index() goes on to the weather fetch.
IndexFetches(r) == ~ geocode_raises(r) /\ geocode_location(r) # None

\* index() saving before it looks at the outcome of the weather fetch.
IndexSaves_BeforeWeatherCheck(r, c, f) == IndexFetches(r)

\* Whether index() goes on to the INSERT.
IndexSaves(r, c, f) == IndexFetches(r) /\ ~ weather_raises(c, f)

\* The response of index() after the form checks.
IndexResponse(tbl, r, c, f) ==
    IF geocode_raises(r)
    THEN Redirect("index", "index", "error", "Error contacting geocoding service.")
    ELSE IF geocode_location(r) = None
    THEN Redirect("index", "index", "error",
                  "Could not find that location. Try a more specific name.")
    ELSE IF weather_raises(c, f)
    THEN Redirect("index", "index", "error", "Error retrieving weather data.")
    ELSE Render("index", "index.html",
                [weather |-> <<get_weather_and_forecast(c, f).current>>,
                 forecast |-> <<get_weather_and_forecast(c, f).forecast>>,
                 query |-> <<NewId(tbl)>>])

\* The network calls and the write of index() after the form checks.
IndexCalls(r, c, f) ==
    geocode_calls(r) \o (IF IndexFetches(r) THEN weather_calls(c, f) ELSE <<>>)
                     \o (IF IndexSaves(r, c, f) THEN <<Write>> ELSE <<>>)

IndexFetch(p) ==
    /\ pc[p] = "index_fetch"
    /\ \E r \in GeoResponses(strip(req[p][1].sent[1].location)) :
       \E w \in (IF IndexFetches(r) THEN WeatherResponses ELSE {Unasked}) :
         /\ store' = IF IndexSaves(r, w.c, w.f)
                     THEN Insert(store, NewQuery(req[p][1].sent[1], geocode_location(r)[1],
                                                 get_weather_and_forecast(w.c, w.f)), utcnow)
                     ELSE store
         /\ Finish(p, req[p][1], IndexResponse(store, r, w.c, w.f), IndexCalls(r, w.c, w.f))
    /\ UNCHANGED started

\* ----------------------------------------------------------------- history()
\* The orders in which a query may return the rows of ids S.
Orderings(S) ==
    { s \in [1 .. Cardinality(S) -> S] : \A i, j \in DOMAIN s : i # j => s[i] # s[j] }

\* order_by(created_at.desc()).all()
NewestFirst(tbl) ==
    { s \in Orderings(DOMAIN tbl) :
        \A i, j \in DOMAIN s : i < j => tbl[s[i]].created_at >= tbl[s[j]].created_at }

\* order_by(created_at).all()
OldestFirst(tbl) ==
    { s \in Orderings(DOMAIN tbl) :
        \A i, j \in DOMAIN s : i < j => tbl[s[i]].created_at <= tbl[s[j]].created_at }

History(p) ==
    /\ Free(p)
    /\ started' = started + 1
    /\ \E queries \in NewestFirst(store) :
         Finish(p, Request("history", "GET", 0, None),
                Render("history", "history.html", [queries |-> queries]), <<>>)
    /\ UNCHANGED store

\* ------------------------------------------------------------------ detail()
\* "json.loads(blob) if blob else None"
LoadBlob(blob) == IF blob # None THEN <<json_loads(blob)>> ELSE None

Detail(p) ==
    /\ Free(p)
    /\ started' = started + 1
    /\ \E query_id \in Ids :
         IF query_id \notin DOMAIN store
         THEN Finish(p, Request("detail", "GET", query_id, None), Abort404("detail"), <<>>)
         ELSE Finish(p, Request("detail", "GET", query_id, None),
                     Render("detail", "detail.html",
                  [query |-> <<query_id>>,
                   weather |-> LoadBlob(store[query_id].current_weather_json),
                   forecast |-> LoadBlob(store[query_id].forecast_json)]), <<>>)
    /\ UNCHANGED store

\* -------------------------------------------------------------------- edit()
EditGet(p) ==
    /\ Free(p)
    /\ started' = started + 1
    /\ \E query_id \in Ids :
         IF query_id \notin DOMAIN store
         THEN Finish(p, Request("edit", "GET", query_id, None), Abort404("edit"), <<>>)
         ELSE Finish(p, Request("edit", "GET", query_id, None),
                     Render("edit", "edit.html", [query |-> <<query_id>>]), <<>>)
    /\ UNCHANGED store

\* The form checks of edit(): "" when they pass, else the flash message.
EditFormError(f) ==
    IF strip(f.location) = <<>> THEN "Location cannot be empty."
    ELSE IF parse_date_raises(f.start_date) \/ parse_date_raises(f.end_date)
         THEN "Invalid date format."
    ELSE IF StartAfterEnd(parse_date(f.start_date), parse_date(f.end_date))
         THEN "Start date must be before end date."
    ELSE ""

EditPost(p) ==
    /\ Free(p)
    /\ started' = started + 1
    /\ \E query_id \in Ids :
         \E f \in Submissions :
           IF query_id \notin DOMAIN store
           THEN Finish(p, Request("edit", "POST", query_id, <<f>>), Abort404("edit"), <<>>)
           ELSE IF EditFormError(f) # ""
           THEN Finish(p, Request("edit", "POST", query_id, <<f>>),
                       Redirect("edit", "edit", "error", EditFormError(f)), <<>>)
           ELSE Goto(p, "edit_fetch", Request("edit", "POST", query_id, <<f>>),
                     <<store[query_id]>>)
    /\ UNCHANGED store

\* The columns edit() assigns.
Mutable == { "user_input", "normalized_name", "lat", "lon", "start_date", "end_date",
             "current_weather_json", "forecast_json" }

\* The attributes whose assigned value differs from the value the session
\* loaded: the unit of work puts these columns, and only these, in the
\* UPDATE statement of the commit.
Dirty(loaded, obj) == { k \in Mutable : obj[k] # loaded[k] }

\* The UPDATE matched no row: the commit raises StaleDataError.
UpdateRaises(tbl, loaded, obj) ==
    Dirty(loaded, obj) # {} /\ loaded.id \notin DOMAIN tbl

\* The commit of edit(): UPDATE weather_queries SET <dirty columns> WHERE
\* id = <id loaded>.  No statement is sent when nothing is dirty.
Update(tbl, loaded, obj) ==
    LET dirty == Dirty(loaded, obj) IN
    IF dirty = {} \/ loaded.id \notin DOMAIN tbl THEN tbl
    ELSE [ tbl EXCEPT ![loaded.id] =
             [ k \in DOMAIN @ |-> IF k \in dirty THEN obj[k] ELSE @[k] ] ]

\* Whether edit() goes on to the weather fetch.
EditFetches(r) == ~ geocode_raises(r) /\ geocode_location(r) # None

\* Whether edit() goes on to the commit.
EditSaves(r, c, f) == EditFetches(r) /\ ~ weather_raises(c, f)

\* The response of edit() after the form checks.
EditResponse(tbl, loaded, form, r, c, f) ==
    IF geocode_raises(r) THEN Unhandled("edit", "geocode_location")
    ELSE IF geocode_location(r) = None
    THEN Redirect("edit", "edit", "error", "Could not find that location.")
    ELSE IF weather_raises(c, f) THEN Unhandled("edit", "get_weather_and_forecast")
    ELSE IF UpdateRaises(tbl, loaded, NewQuery(form, geocode_location(r)[1],
                                               get_weather_and_forecast(c, f)))
    THEN Unhandled("edit", "commit")
    ELSE Redirect("edit", "detail", "success", "Record updated.")

\* The network calls and the write of edit() after the form checks.
EditCalls(r, c, f) ==
    geocode_calls(r) \o (IF EditFetches(r) THEN weather_calls(c, f) ELSE <<>>)
                     \o (IF EditSaves(r, c, f) THEN <<Write>> ELSE <<>>)

EditFetch(p) ==
    /\ pc[p] = "edit_fetch"
    /\ \E r \in GeoResponses(strip(req[p][1].sent[1].location)) :
       \E w \in (IF EditFetches(r) THEN WeatherResponses ELSE {Unasked}) :
         /\ store' = IF EditSaves(r, w.c, w.f)
                     THEN Update(store, q[p][1],
                                 NewQuery(req[p][1].sent[1], geocode_location(r)[1],
                                          get_weather_and_forecast(w.c, w.f)))
                     ELSE store
         /\ Finish(p, req[p][1],
                   EditResponse(store, q[p][1], req[p][1].sent[1], r, w.c, w.f),
                   EditCalls(r, w.c, w.f))
    /\ UNCHANGED started

\* ------------------------------------------------------------------ delete()
Delete(p) ==
    /\ Free(p)
    /\ started' = started + 1
    /\ \E query_id \in Ids :
         IF query_id \notin DOMAIN store
         THEN Finish(p, Request("delete", "POST", query_id, None), Abort404("delete"), <<>>)
         ELSE Goto(p, "delete_commit", Request("delete", "POST", query_id, None),
                   <<store[query_id]>>)
    /\ UNCHANGED store

\* A DELETE whose WHERE clause also matches the rows inserted later.
Remove_LaterRowsToo(tbl, loaded) == [ i \in { j \in DOMAIN tbl : j < loaded.id } |-> tbl[i] ]

\* db.session.delete(obj); db.session.commit(): DELETE ... WHERE id = <id
\* loaded>; a DELETE that matches no row only warns.
Remove(tbl, loaded) == [ i \in DOMAIN tbl \ {loaded.id} |-> tbl[i] ]

DeleteCommit(p) ==
    /\ pc[p] = "delete_commit"
    /\ store' = Remove(store, q[p][1])
    /\ Finish(p, req[p][1], Redirect("delete", "history", "success", "Record deleted."),
              <<Write>>)
    /\ UNCHANGED started

\* --------------------------------------------------------------- by_coords()
\* "lat is None or lon is None" does not hold: by_coords() goes on to the
\* weather fetch.
CoordsFetches(data) == data.lat # None /\ data.lon # None

\* The response of by_coords(): data.get raises when the body is no object.
CoordsResponse(data, c, f) ==
    IF ~ data.object THEN Unhandled("by_coords", "data.get")
    ELSE IF ~ CoordsFetches(data)
    THEN Jsonify("by_coords", 400, [error |-> "Missing coordinates"])
    ELSE IF weather_raises(c, f)
    THEN Jsonify("by_coords", 500, [error |-> "Weather API error"])
    ELSE Jsonify("by_coords", 200, get_weather_and_forecast(c, f))

\* The network calls of by_coords().
CoordsCalls(data, c, f) ==
    IF data.object /\ CoordsFetches(data) THEN weather_calls(c, f) ELSE <<>>

ByCoords(p) ==
    /\ Free(p)
    /\ started' = started + 1
    /\ \E data \in CoordBodies :
       \E w \in (IF data.object /\ CoordsFetches(data) THEN WeatherResponses ELSE {Unasked}) :
         Finish(p, Request("by_coords", "POST", 0, <<data>>),
                CoordsResponse(data, w.c, w.f), CoordsCalls(data, w.c, w.f))
    /\ UNCHANGED store

\* ------------------------------------------------------------------ export()
\* "str(d) if d else None"
DateStr(d) == IF d # None THEN <<"str", d>> ELSE None

\* One item of the JSON export.
ExportRow(row) ==
    [ id |-> row.id, user_input |-> row.user_input,
      normalized_name |-> row.normalized_name, lat |-> row.lat, lon |-> row.lon,
      start_date |-> DateStr(row.start_date), end_date |-> DateStr(row.end_date),
      created_at |-> <<"iso", row.created_at>> ]

CsvHeader == << "id", "user_input", "normalized_name", "lat", "lon",
                "start_date", "end_date", "created_at" >>

\* One line of the CSV export.
CsvRow(row) ==
    << row.id, row.user_input, row.normalized_name, row.lat, row.lon,
       row.start_date, row.end_date, <<"iso", row.created_at>> >>

Export(p) ==
    /\ Free(p)
    /\ started' = started + 1
    /\ \E fmt \in Formats, queries \in OldestFirst(store) :
         Finish(p, Request("export", "GET", 0, <<fmt>>),
                IF fmt = "json"
                THEN Jsonify("export", 200,
                             [i \in DOMAIN queries |-> ExportRow(store[queries[i]])])
                ELSE IF fmt = "csv"
                THEN Response("export", 200, "csv", "weather_queries.csv", None,
                              <<CsvHeader>> \o
                              [i \in DOMAIN queries |-> CsvRow(store[queries[i]])])
                ELSE Jsonify("export", 400, [error |-> "Unsupported format"]),
                <<>>)
    /\ UNCHANGED store

\* --------------------------------------------------------------------- spec
Next ==
    \/ \E p \in Workers : IndexGet(p)
    \/ \E p \in Workers : IndexPost(p)
    \/ \E p \in Workers : IndexFetch(p)
    \/ \E p \in Workers : History(p)
    \/ \E p \in Workers : Detail(p)
    \/ \E p \in Workers : EditGet(p)
    \/ \E p \in Workers : EditPost(p)
    \/ \E p \in Workers : EditFetch(p)
    \/ \E p \in Workers : Delete(p)
    \/ \E p \in Workers : DeleteCommit(p)
    \/ \E p \in Workers : ByCoords(p)
    \/ \E p \in Workers : Export(p)

Spec == Init /\ [][Next]_vars

\* --------------------------------------------------------------- properties
\* The operations of a trace, in order.
Ops(trace) == [i \in DOMAIN trace |-> trace[i].op]
Called(trace, op) == \E i \in DOMAIN trace : trace[i].op = op
AnswerTo(trace, op) == trace[CHOOSE i \in DOMAIN trace : trace[i].op = op].answer
IsPrefix(s, t) == Len(s) <= Len(t) /\ \A i \in DOMAIN s : s[i] = t[i]

\* A step that answers a request in its first action / in its second action.
AtomicStep == started' # started /\ pc' = pc
Completes(p) == pc[p] # "idle" /\ pc'[p] = "idle"
Begins(p) == pc[p] = "idle" /\ pc'[p] # "idle"
Answers == AtomicStep \/ \E p \in Workers : Completes(p)

\* A create or edit submission.
Submission(request) == request.view \in {"index", "edit"} /\ request.method = "POST"

\* A response that reports a failure.
IsFailure(r) ==
    \/ r.kind \in {"exception", "notfound"}
    \/ r.kind = "redirect" /\ r.flash[1] = "error"
    \/ r.kind = "json" /\ r.status >= 400

\* The submitted dates parse and the start date is after the end date.
StartsAfterEnd(f) ==
    /\ ~ parse_date_raises(f.start_date)
    /\ ~ parse_date_raises(f.end_date)
    /\ StartAfterEnd(parse_date(f.start_date), parse_date(f.end_date))

\* The form passes the three checks of the handlers.
FormValid(f) ==
    /\ strip(f.location) # <<>>
    /\ ~ parse_date_raises(f.start_date)
    /\ ~ parse_date_raises(f.end_date)
    /\ ~ StartsAfterEnd(f)

\* The step completes an edit that answered "Record updated.".
EditSucceeds(p) ==
    /\ Completes(p)
    /\ pc[p] = "edit_fetch"
    /\ resp'.kind = "redirect"
    /\ resp'.target = "detail"

\* The attributes the edit answered in this step assigned.
Assigned ==
    NewQuery(served'.sent[1],
             geocode_location(AnswerTo(calls', "geocode"))[1],
             [current |-> AnswerTo(calls', "current").json,
              forecast |-> AnswerTo(calls', "forecast").json])

\* C1: a create or edit submission that is answered with a failure (form
\* check, no match, failed geocoding call, failed weather fetch, missing
\* row) leaves the table exactly as it was.
C1_FailedSubmissionWritesNothing ==
    [][ (Answers /\ Submission(served') /\ IsFailure(resp')) => store' = store ]_vars

\* An edit of the earlier row whose weather fetch failed after a successful
\* geocoding call has been answered, and the row is as it was.
C1_Witness ==
    /\ Submission(served)
    /\ served.view = "edit"
    /\ IsFailure(resp)
    /\ Called(calls, "current")
    /\ store = <<EarlierRow>>

\* C2: every row with both dates set has start_date <= end_date, and a
\* submission with start_date > end_date is answered with the validation
\* error without any call or write.
C2_DatesOrdered ==
    /\ \A i \in DOMAIN store : ~ StartAfterEnd(store[i].start_date, store[i].end_date)
    /\ (Submission(served) /\ resp.kind # "notfound" /\ strip(served.sent[1].location) # <<>>
           /\ StartsAfterEnd(served.sent[1]))
         => ( /\ resp.kind = "redirect"
              /\ resp.flash = <<"error", "Start date must be before end date.">>
              /\ calls = <<>> )

\* C3: a create submission whose geocoding call returned a match and whose
\* two weather calls succeeded adds exactly one row, leaves every other row
\* as it was, and the new row holds the coordinates and the name of the
\* match and both weather payloads.
C3_CreateAddsOneRow ==
    [][ \A p \in Workers :
          ( /\ Completes(p)
            /\ pc[p] = "index_fetch"
            /\ Called(calls', "geocode")
            /\ AnswerTo(calls', "geocode").ok
            /\ AnswerTo(calls', "geocode").data # <<>>
            /\ Called(calls', "current")
            /\ AnswerTo(calls', "current").ok
            /\ Called(calls', "forecast")
            /\ AnswerTo(calls', "forecast").ok )
          => /\ resp'.kind = "render"
             /\ Cardinality(DOMAIN store') = Cardinality(DOMAIN store) + 1
             /\ \A i \in DOMAIN store : i \in DOMAIN store' /\ store'[i] = store[i]
             /\ \E new \in DOMAIN store' \ DOMAIN store :
                  LET row == store'[new]
                      match == AnswerTo(calls', "geocode").data[1]
                  IN /\ resp'.body.query = <<new>>
                     /\ row.id = new
                     /\ row.lat = match.lat
                     /\ row.lon = match.lon
                     /\ row.normalized_name = <<match.name, ", ", match.country>>
                     /\ row.user_input = strip(served'.sent[1].location)
                     /\ row.current_weather_json # None
                     /\ row.forecast_json # None
                     /\ json_loads(row.current_weather_json) = AnswerTo(calls', "current").json
                     /\ json_loads(row.forecast_json) = AnswerTo(calls', "forecast").json
      ]_vars

\* A create for "L" has been answered with the page of row 2, next to the
\* earlier row.
C3_Witness ==
    /\ served.view = "index"
    /\ served.method = "POST"
    /\ resp.kind = "render"
    /\ resp.body.query = <<2>>
    /\ DOMAIN store = {1, 2}
    /\ store[1] = EarlierRow
    /\ store[2].lat = London.lat
    /\ store[2].lon = London.lon

\* C4: no request ends with an exception that left its view function.
C4_NoUnhandledException == resp.kind # "exception"

\* C5: a delete request for an id that is not in the table is answered
\* not-found and leaves the table as it was; a delete request that found
\* its row removes the row of that id and no other.
C5_DeleteRemovesOnlyItsRow ==
    [][ /\ (AtomicStep /\ served'.view = "delete")
           => ( /\ served'.query_id \notin DOMAIN store
                /\ resp'.kind = "notfound"
                /\ store' = store )
        /\ \A p \in Workers :
             /\ (Begins(p) /\ pc'[p] = "delete_commit")
                => (req'[p][1].query_id \in DOMAIN store /\ store' = store)
             /\ (Completes(p) /\ pc[p] = "delete_commit")
                => ( /\ DOMAIN store' = DOMAIN store \ {req[p][1].query_id}
                     /\ \A i \in DOMAIN store' : store'[i] = store[i] )
      ]_vars

\* The second request, a delete of id 1, has been answered not-found with
\* the table empty (never filled, or emptied by the first request).
C5_Witness ==
    /\ served.view = "delete"
    /\ served.query_id = 1
    /\ resp.kind = "notfound"
    /\ started = 2
    /\ store = <<>>

\* C6: after an edit answered "Record updated." the row holds the two
\* payloads of the weather fetch of that request, with its id and
\* created_at as before.
C6_EditRefreshesPayloads ==
    [][ \A p \in Workers :
          (EditSucceeds(p) /\ q[p][1].id \in DOMAIN store')
          => LET id == q[p][1].id IN
             /\ store'[id].current_weather_json = Assigned.current_weather_json
             /\ store'[id].forecast_json = Assigned.forecast_json
             /\ store'[id].id = id
             /\ store'[id].created_at = store[id].created_at
      ]_vars

\* C7: a fetch yields its pair only when both calls succeeded, and a
\* handler that stores or returns a payload stores or returns both
\* payloads of its own fetch.
C7_BothPayloadsOrNone ==
    [][ Answers =>
          /\ (served'.view = "by_coords" /\ resp'.status = 200)
             => ( /\ Called(calls', "current") /\ AnswerTo(calls', "current").ok
                  /\ Called(calls', "forecast") /\ AnswerTo(calls', "forecast").ok
                  /\ resp'.body = [current |-> AnswerTo(calls', "current").json,
                                   forecast |-> AnswerTo(calls', "forecast").json] )
          /\ (Submission(served') /\ Called(calls', "write"))
             => ( /\ Called(calls', "current") /\ AnswerTo(calls', "current").ok
                  /\ Called(calls', "forecast") /\ AnswerTo(calls', "forecast").ok )
          /\ \A p \in Workers :
               ( /\ EditSucceeds(p)
                 /\ q[p][1].id \in DOMAIN store'
                 /\ \/ store'[q[p][1].id].current_weather_json
                         # store[q[p][1].id].current_weather_json
                    \/ store'[q[p][1].id].forecast_json # store[q[p][1].id].forecast_json )
               => ( /\ store'[q[p][1].id].current_weather_json = Assigned.current_weather_json
                    /\ store'[q[p][1].id].forecast_json = Assigned.forecast_json )
      ]_vars

\* C8: POST /by-coords leaves the table as it was and makes no geocoding
\* call; with lat or lon missing from the body it answers 400 without a
\* weather call, with a failed fetch 500, and otherwise the two payloads of
\* its fetch.
C8_ByCoordsTouchesNothing ==
    [][ (AtomicStep /\ served'.view = "by_coords") =>
          /\ store' = store
          /\ ~ Called(calls', "geocode")
          /\ ~ Called(calls', "write")
          /\ LET data == served'.sent[1] IN
             /\ (data.lat = None \/ data.lon = None)
                => ( /\ resp'.kind = "json" /\ resp'.status = 400
                     /\ resp'.body = [error |-> "Missing coordinates"]
                     /\ calls' = <<>> )
             /\ (data.lat # None /\ data.lon # None)
                => /\ Called(calls', "current")
                   /\ IF /\ AnswerTo(calls', "current").ok
                         /\ Called(calls', "forecast")
                         /\ AnswerTo(calls', "forecast").ok
                      THEN /\ resp'.kind = "json" /\ resp'.status = 200
                           /\ resp'.body = [current |-> AnswerTo(calls', "current").json,
                                            forecast |-> AnswerTo(calls', "forecast").json]
                      ELSE /\ resp'.kind = "json" /\ resp'.status = 500
                           /\ resp'.body = [error |-> "Weather API error"]
      ]_vars

\* C9: an edit answered "Record updated." whose row was changed by another
\* request after the edit loaded it leaves every mutable column of the row
\* with the value this edit assigned.
C9_LastEditWinsWhole ==
    [][ \A p \in Workers :
          ( /\ EditSucceeds(p)
            /\ q[p][1].id \in DOMAIN store
            /\ store[q[p][1].id] # q[p][1] )
          => \A k \in Mutable : store'[q[p][1].id][k] = Assigned[k]
      ]_vars

\* C10: the calls of a create or edit submission come in the order
\* geocoding, current conditions, forecast, write; the geocoding call is
\* made only for a form that passed the three checks, the weather calls
\* only after a geocoding match, the write only after both weather calls
\* succeeded.
C10_StepsGated ==
    Submission(served) =>
      /\ IsPrefix(Ops(calls), <<"geocode", "current", "forecast", "write">>)
      /\ Called(calls, "geocode") => FormValid(served.sent[1])
      /\ ~ FormValid(served.sent[1]) => calls = <<>>
      /\ Called(calls, "current")
         => (AnswerTo(calls, "geocode").ok /\ AnswerTo(calls, "geocode").data # <<>>)
      /\ Called(calls, "forecast") => AnswerTo(calls, "current").ok
      /\ Called(calls, "write")
         => (AnswerTo(calls, "current").ok /\ AnswerTo(calls, "forecast").ok)

\* An edit whose location the geocoder does not know has been answered
\* after the geocoding call alone.
C10_Witness ==
    /\ Submission(served)
    /\ served.view = "edit"
    /\ Ops(calls) = <<"geocode">>
    /\ AnswerTo(calls, "geocode").ok
    /\ AnswerTo(calls, "geocode").data = <<>>
    /\ resp.flash = <<"error", "Could not find that location.">>
====
